---- MODULE Spec2Model ----
(***************************************************************************)
(* Evaluation of assignment expressions in engine262:                      *)
(*   src/src/runtime-semantics/AssignmentExpression.mjs                    *)
(*                                                                         *)
(* One evaluation of Evaluate_AssignmentExpression is a generator.  It     *)
(* runs synchronously from one `yield*` delegation to the next; every      *)
(* delegation (Evaluate, NamedEvaluation,                                  *)
(* DestructuringAssignmentEvaluation) is a sub-evaluation that may be      *)
(* suspended and later resumed by the scheduler with a value or with an    *)
(* injected abrupt completion.  pc is the source line of the delegation    *)
(* the generator is waiting in.                                            *)
(***************************************************************************)
EXTENDS Integers, Sequences, FiniteSets, TLC

\* Longest ElementList / PropertyDefinitionList of a literal in target position.
MaxLen == 2

(***************************************************************************)
(* Language values.  Every value is a record [t, v] of two strings.        *)
(***************************************************************************)
Undefined == [t |-> "Undefined", v |-> "undefined"]
Null      == [t |-> "Null", v |-> "null"]
False     == [t |-> "Boolean", v |-> "false"]
True      == [t |-> "Boolean", v |-> "true"]
Zero      == [t |-> "Number", v |-> "0"]
One       == [t |-> "Number", v |-> "1"]
Five      == [t |-> "Number", v |-> "5"]
EmptyStr  == [t |-> "String", v |-> ""]
Sym       == [t |-> "Symbol", v |-> "sym"]
Fn(name)  == [t |-> "Function", v |-> name]

\* The values a binding or a source expression can hold in this model.
Values == {Undefined, Null, False, True, Zero, One, EmptyStr, Sym}

\* A binding that exists but is still in its temporal dead zone.
Uninit == [t |-> "Uninitialized", v |-> "tdz"]

\* A Reference: the assignable location named v.
Reference(name) == [t |-> "Reference", v |-> name]
Unresolvable == "unresolvable"

IsReference(V) == "t" \in DOMAIN V /\ V.t = "Reference"

(***************************************************************************)
(* Completion records.  Sub-evaluations and abstract operations return     *)
(* either a bare value/Reference (a normal completion) or an abrupt        *)
(* completion record [Type, Value].                                        *)
(***************************************************************************)
ThrowCompletion(why) == [Type |-> "throw", Value |-> why]
ReturnCompletion(why) == [Type |-> "return", Value |-> why]

IsAbrupt(c) == "Type" \in DOMAIN c

\* ToBoolean of the abstract operations.
ToBoolean(argument) ==
    IF argument \in {Undefined, Null, False, Zero, EmptyStr} THEN False ELSE True

\* GetValue(V): an abrupt V is returned as it is, a value that is no
\* Reference is returned as it is, an unresolvable Reference or a binding in
\* its dead zone throws, any other Reference reads the binding.
GetValue(V, env) ==
    IF IsAbrupt(V) THEN V
    ELSE IF ~IsReference(V) THEN V
    ELSE IF V.v = Unresolvable \/ env = Uninit THEN ThrowCompletion("GetValue")
    ELSE env

\* PutValue(V, W): the completion it returns.
PutValue(V, W, env, canWrite) ==
    IF IsAbrupt(V) THEN V
    ELSE IF IsAbrupt(W) THEN W
    ELSE IF ~IsReference(V) \/ V.v = Unresolvable \/ env = Uninit \/ ~canWrite
         THEN ThrowCompletion("PutValue")
    ELSE Undefined

\* PutValue(V, W): the binding after the call.
PutValueEnv(V, W, env, canWrite) ==
    IF IsAbrupt(PutValue(V, W, env, canWrite)) THEN env ELSE W

\* A record that is no Reference has no [[ReferencedName]]: the read yields undefined.
GetReferencedName(V) == IF IsReference(V) THEN V.v ELSE "undefined"

(***************************************************************************)
(* AST nodes.                                                              *)
(***************************************************************************)
IdentifierReference(name) == [type |-> "IdentifierReference", name |-> name]
MemberExpression(name)    == [type |-> "MemberExpression", name |-> name]
Elision                   == [type |-> "Elision"]
NumericLiteral            == [type |-> "NumericLiteral"]
CallExpression            == [type |-> "CallExpression"]
FunctionExpression(name)  == [type |-> "FunctionExpression", BindingIdentifier |-> name]
ClassExpression(name)     == [type |-> "ClassExpression", BindingIdentifier |-> name]
ArrayLiteral(list)        == [type |-> "ArrayLiteral", ElementList |-> list]
ObjectLiteral(list)       == [type |-> "ObjectLiteral", PropertyDefinitionList |-> list]
AssignmentExpressionNode(lhs, op, rhs) ==
    [type |-> "AssignmentExpression", LeftHandSideExpression |-> lhs,
     AssignmentOperator |-> op, AssignmentExpression |-> rhs]

IsIdentifierRef(node) == node.type = "IdentifierReference"

IsAnonymousFunctionDefinition(expr) ==
    /\ expr.type \in {"FunctionExpression", "ClassExpression"}
    /\ expr.BindingIdentifier = ""

(***************************************************************************)
(* Operator tokens are sequences of characters, so that the relation       *)
(* between a compound token and its base operator is a fact about text.    *)
(***************************************************************************)
TokAssign   == <<"=">>
TokAndAnd   == <<"&", "&", "=">>
TokOrOr     == <<"|", "|", "=">>
TokCoalesce == <<"?", "?", "=">>
TokExp      == <<"*", "*", "=">>
TokMul      == <<"*", "=">>
TokDiv      == <<"/", "=">>
TokMod      == <<"%", "=">>
TokAdd      == <<"+", "=">>
TokSub      == <<"-", "=">>
TokShl      == <<"<", "<", "=">>
TokSar      == <<">", ">", "=">>
TokShr      == <<">", ">", ">", "=">>
TokBitAnd   == <<"&", "=">>
TokBitXor   == <<"^", "=">>
TokBitOr    == <<"|", "=">>

LogicalTokens  == {TokAndAnd, TokOrOr, TokCoalesce}
CompoundTokens == {TokExp, TokMul, TokDiv, TokMod, TokAdd, TokSub,
                   TokShl, TokSar, TokShr, TokBitAnd, TokBitXor, TokBitOr}
\* The AssignmentOperator tokens the parser produces.
AssignmentOperators == {TokAssign} \cup LogicalTokens \cup CompoundTokens

\* A property lookup that finds no entry yields undefined: no operator text.
NoOpText == <<>>

\* The table with the entry of >>>= taken from the row above it.
OpText_ShiftRowRepeated(assignmentOpText) ==
    CASE assignmentOpText = <<"*", "*", "=">>      -> <<"*", "*">>
      [] assignmentOpText = <<"*", "=">>           -> <<"*">>
      [] assignmentOpText = <<"/", "=">>           -> <<"/">>
      [] assignmentOpText = <<"%", "=">>           -> <<"%">>
      [] assignmentOpText = <<"+", "=">>           -> <<"+">>
      [] assignmentOpText = <<"-", "=">>           -> <<"-">>
      [] assignmentOpText = <<"<", "<", "=">>      -> <<"<", "<">>
      [] assignmentOpText = <<">", ">", "=">>      -> <<">", ">">>
      [] assignmentOpText = <<">", ">", ">", "=">> -> <<">", ">">>
      [] assignmentOpText = <<"&", "=">>           -> <<"&">>
      [] assignmentOpText = <<"^", "=">>           -> <<"^">>
      [] assignmentOpText = <<"|", "=">>           -> <<"|">>
      [] OTHER                                     -> NoOpText

\* The table of step 6 of the compound branch, indexed by assignmentOpText.
OpText(assignmentOpText) ==
    CASE assignmentOpText = <<"*", "*", "=">>      -> <<"*", "*">>
      [] assignmentOpText = <<"*", "=">>           -> <<"*">>
      [] assignmentOpText = <<"/", "=">>           -> <<"/">>
      [] assignmentOpText = <<"%", "=">>           -> <<"%">>
      [] assignmentOpText = <<"+", "=">>           -> <<"+">>
      [] assignmentOpText = <<"-", "=">>           -> <<"-">>
      [] assignmentOpText = <<"<", "<", "=">>      -> <<"<", "<">>
      [] assignmentOpText = <<">", ">", "=">>      -> <<">", ">">>
      [] assignmentOpText = <<">", ">", ">", "=">> -> <<">", ">", ">">>
      [] assignmentOpText = <<"&", "=">>           -> <<"&">>
      [] assignmentOpText = <<"^", "=">>           -> <<"^">>
      [] assignmentOpText = <<"|", "=">>           -> <<"|">>
      [] OTHER                                     -> NoOpText

\* ApplyStringOrNumericBinaryOperator(lval, opText, rval).  The operator
\* semantics live outside this file: the result is the uninterpreted term
\* (lval opText rval); a Symbol operand cannot be coerced and throws.
ApplyStringOrNumericBinaryOperator(lval, opText, rval) ==
    IF lval = Sym \/ rval = Sym
    THEN ThrowCompletion("ApplyStringOrNumericBinaryOperator")
    ELSE [t |-> "Result", l |-> lval, op |-> opText, r |-> rval]

(***************************************************************************)
(* refineLeftHandSideExpression.  A thrown OutOfRange is a record of type  *)
(* "OutOfRange"; it is a host exception, not a completion record.          *)
(***************************************************************************)
NullNode    == [type |-> "null"]
JSUndefined == [type |-> "undefined"]
IdentifierName(name) == [type |-> "IdentifierName", name |-> name]
PropertyDefinition(key, value) ==
    [type |-> "PropertyDefinition", PropertyName |-> key, AssignmentExpression |-> value]
CoverInitializedName(name, init) ==
    [type |-> "CoverInitializedName", IdentifierReference |-> IdentifierReference(name),
     Initializer |-> init]

OutOfRange(fn, what) == [type |-> "OutOfRange", fn |-> fn, what |-> what]
IsThrown(x) == x.type = "OutOfRange"

\* p.PropertyName === null && p.AssignmentExpression
IsRestProperty(p) ==
    /\ "PropertyName" \in DOMAIN p
    /\ p.PropertyName = NullNode
    /\ "AssignmentExpression" \in DOMAIN p

\* The refined property put in front of the entries collected so far.
PushProperty_Unshift(entries, r) == <<r>> \o entries
\* refined.AssignmentPropertyList.push(r)
PushProperty(entries, r) == Append(entries, r)

\* A default case that hands the node through as it is.
RefineDefault_PassThrough(node) == node
\* default: throw new OutOfRange('refineLeftHandSideExpression', node.type)
RefineDefault(node) == OutOfRange("refineLeftHandSideExpression", node.type)

RECURSIVE refineLeftHandSideExpression(_)
RECURSIVE refineElements(_, _)
RECURSIVE refineProperties(_, _)

\* node.ElementList.map(refine) inside the array pattern under construction:
\* the elements are refined in order and the first throw ends the call.
refineElements(list, done) ==
    IF list = <<>>
    THEN [type |-> "ArrayAssignmentPattern", AssignmentElementList |-> done]
    ELSE LET r == refineLeftHandSideExpression(Head(list))
         IN  IF IsThrown(r) THEN r ELSE refineElements(Tail(list), Append(done, r))

\* node.PropertyDefinitionList.forEach(...) over the pattern built so far.
refineProperties(list, refined) ==
    IF list = <<>> THEN refined
    ELSE LET p == Head(list)
         IN  IF IsRestProperty(p)
             THEN refineProperties(Tail(list),
                    [type |-> "ObjectAssignmentPattern",
                     AssignmentPropertyList |-> refined.AssignmentPropertyList,
                     AssignmentRestProperty |->
                        [type |-> "AssignmentRestProperty",
                         DestructuringAssignmentTarget |-> p.AssignmentExpression]])
             ELSE LET r == refineLeftHandSideExpression(p)
                  IN  IF IsThrown(r) THEN r
                      ELSE refineProperties(Tail(list),
                             [refined EXCEPT !.AssignmentPropertyList = PushProperty(@, r)])

refineLeftHandSideExpression(node) ==
    CASE node.type = "ArrayLiteral" ->
            refineElements(node.ElementList, <<>>)
      [] node.type = "ObjectLiteral" ->
            refineProperties(node.PropertyDefinitionList,
                [type |-> "ObjectAssignmentPattern", AssignmentPropertyList |-> <<>>])
      [] node.type = "PropertyDefinition" ->
            [type |-> "AssignmentProperty",
             PropertyName |-> node.PropertyName,
             AssignmentElement |->
                IF node.AssignmentExpression.type = "AssignmentExpression"
                THEN [type |-> "AssignmentElement",
                      DestructuringAssignmentTarget |->
                          node.AssignmentExpression.LeftHandSideExpression,
                      AssignmentExpression |->
                          node.AssignmentExpression.AssignmentExpression]
                ELSE [type |-> "AssignmentElement",
                      DestructuringAssignmentTarget |-> node.AssignmentExpression,
                      Initializer |-> JSUndefined]]
      [] node.type = "IdentifierReference" ->
            [type |-> "AssignmentProperty",
             IdentifierReference |-> node,
             Initializer |-> JSUndefined]
      [] node.type = "CoverInitializedName" ->
            [type |-> "AssignmentProperty",
             IdentifierReference |-> node.IdentifierReference,
             Initializer |-> node.Initializer]
      [] node.type = "AssignmentExpression" ->
            [type |-> "AssignmentElement",
             DestructuringAssignmentTarget |-> node.LeftHandSideExpression,
             Initializer |-> node.AssignmentExpression]
      [] OTHER -> RefineDefault(node)

(***************************************************************************)
(* The inputs: assignment expression nodes as the parser produces them.    *)
(***************************************************************************)
SimpleTargets ==
    {IdentifierReference("x"), IdentifierReference("y"), MemberExpression("p")}

\* Elements of an array literal in target position.
ArrayElements ==
    {IdentifierReference("a"), Elision, MemberExpression("p"),
     AssignmentExpressionNode(IdentifierReference("a"), TokAssign, NumericLiteral),
     ArrayLiteral(<<IdentifierReference("a")>>),
     ArrayLiteral(<<MemberExpression("p")>>),
     AssignmentExpressionNode(ArrayLiteral(<<IdentifierReference("a")>>),
                              TokAssign, NumericLiteral)}

\* Property definitions of an object literal in target position.
PropertyDefinitions ==
    {IdentifierReference("a"),
     CoverInitializedName("a", NumericLiteral),
     PropertyDefinition(IdentifierName("k"), IdentifierReference("a")),
     PropertyDefinition(IdentifierName("k"),
        AssignmentExpressionNode(IdentifierReference("a"), TokAssign, NumericLiteral)),
     PropertyDefinition(IdentifierName("k"), ArrayLiteral(<<IdentifierReference("a")>>)),
     PropertyDefinition(NullNode, IdentifierReference("r"))}

\* The parser accepts a rest property only as the last property of the literal.
RestIsLast(list) == \A k \in DOMAIN list : IsRestProperty(list[k]) => k = Len(list)

SeqsUpTo(S, n) == UNION {[1..k -> S] : k \in 0..n}

DestructuringTargets ==
    {ArrayLiteral(l) : l \in SeqsUpTo(ArrayElements, MaxLen)}
    \cup {ObjectLiteral(l) : l \in {q \in SeqsUpTo(PropertyDefinitions, MaxLen) : RestIsLast(q)}}

\* Source expressions: function and class expressions with and without a name
\* of their own, a call, an identifier that resolves to no binding and, for an
\* identifier target, that same identifier (x = x, x += x).
Sources(lhs) ==
    {FunctionExpression(""), FunctionExpression("f"), ClassExpression(""),
     CallExpression, IdentifierReference(Unresolvable)}
    \cup (IF lhs.type = "IdentifierReference" THEN {lhs} ELSE {})

Nodes ==
    UNION {{AssignmentExpressionNode(lhs, op, rhs) :
                op \in AssignmentOperators, rhs \in Sources(lhs)} :
           lhs \in SimpleTargets}
    \cup UNION {{AssignmentExpressionNode(lhs, TokAssign, rhs) : rhs \in Sources(lhs)} :
                lhs \in DestructuringTargets}

(***************************************************************************)
(* State.                                                                  *)
(***************************************************************************)
VARIABLES
    node,               \* the AssignmentExpression node under evaluation
    pc,                 \* "start", the line of the pending yield*, "done", "threw"
    sub,                \* the delegated sub-evaluation: idle/running/suspended/returned
    ret,                \* what the sub-evaluation returned to the yield*
    lref, lval, rval,   \* the locals of the branch
    assignmentPattern,  \* the refined pattern of the destructuring branch
    env,                \* the value held by the location the target denotes
    canWrite,           \* whether that location accepts a store
    result,             \* what the evaluation returned
    exception,          \* the host exception the evaluation ended with
    trace               \* the calls made so far, in order

vars == <<node, pc, sub, ret, lref, lval, rval, assignmentPattern, env, canWrite,
          result, exception, trace>>

Unset == [t |-> "Unset", v |-> "unset"]

\* One entry of the trace: the delegation line it belongs to, the operation,
\* its arguments and what it returned.  A delegation is entered as a call (out
\* Unset) and left by a "return" entry (args: what it returned, out: the
\* binding then) or an "inject" entry (args: the completion the scheduler
\* resumed it with).
Event(at, op, args, out) == [at |-> at, op |-> op, args |-> args, out |-> out]

\* What the location a simple target denotes can hold, and whether it accepts
\* a store.  A literal target denotes no location of its own: env is then the
\* binding a call in source position may touch.
Bindings(lhs) ==
    IF lhs.type \in {"ObjectLiteral", "ArrayLiteral"} THEN {Undefined}
    ELSE Values \cup {Uninit}
Writable(lhs) ==
    IF lhs.type \in {"ObjectLiteral", "ArrayLiteral"} THEN {TRUE} ELSE BOOLEAN

Init ==
    /\ node \in Nodes
    /\ env \in Bindings(node.LeftHandSideExpression)
    /\ canWrite \in Writable(node.LeftHandSideExpression)
    /\ pc = "start"
    /\ sub = "idle"
    /\ ret = Unset
    /\ lref = Unset
    /\ lval = Unset
    /\ rval = Unset
    /\ assignmentPattern = Unset
    /\ result = Unset
    /\ exception = Unset
    /\ trace = <<>>

LeftHandSideExpression == node.LeftHandSideExpression
AssignmentOperator     == node.AssignmentOperator
AssignmentExpression   == node.AssignmentExpression

(***************************************************************************)
(* Sub-evaluations: the collaborators behind each yield*.                  *)
(***************************************************************************)
LhsLines   == {"L100", "L131", "L150", "L169", "L186"}
RhsLines   == {"L110", "L122", "L141", "L160", "L177", "L190"}
NamedLines == {"L107"}
DaeLines   == {"L126"}

\* What Evaluate(LeftHandSideExpression) can return.
LhsOutcomes ==
    {Reference(LeftHandSideExpression.name),
     ThrowCompletion("Evaluate(LeftHandSideExpression)")}

\* What Evaluate(AssignmentExpression) can return.
RhsOutcomes ==
    CASE AssignmentExpression.type = "FunctionExpression" ->
            {Fn(AssignmentExpression.BindingIdentifier)}
      [] AssignmentExpression.type = "ClassExpression" ->
            {Fn(AssignmentExpression.BindingIdentifier),
             ThrowCompletion("Evaluate(AssignmentExpression)")}
      [] AssignmentExpression.type = "IdentifierReference" ->
            {Reference(AssignmentExpression.name)}
      [] OTHER ->
            Values \cup {ThrowCompletion("Evaluate(AssignmentExpression)")}

\* What NamedEvaluation(AssignmentExpression, name) can return.
NamedOutcomes(name) ==
    IF AssignmentExpression.type = "ClassExpression"
    THEN {Fn(name), ThrowCompletion("NamedEvaluation")}
    ELSE {Fn(name)}

\* What DestructuringAssignmentEvaluation can return.
DaeOutcomes == {Undefined, ThrowCompletion("DestructuringAssignmentEvaluation")}

\* The abrupt completions the scheduler can resume a suspension point with.
Injected == {ThrowCompletion("injected"), ReturnCompletion("injected")}

\* A call expression in source position can reassign the target's binding.
SourceEffects == IF AssignmentExpression.type = "CallExpression" THEN {env, Five} ELSE {env}

LastCall == trace[Len(trace)]

\* yield* <op>(args): the generator waits at `line` for the sub-evaluation.
Delegate(line, op, args, tr) ==
    /\ pc' = line
    /\ sub' = "running"
    /\ ret' = Unset
    /\ trace' = Append(tr, Event(line, op, args, Unset))
    /\ UNCHANGED <<env, result>>

\* return c
Return(c, tr) ==
    /\ pc' = "done"
    /\ sub' = "idle"
    /\ ret' = Unset
    /\ result' = c
    /\ trace' = tr
    /\ env' = env

\* The store step performed twice.
StoreAndReturn_Twice(V, W, tr) ==
    LET c == PutValue(V, W, env, canWrite)
    IN  /\ pc' = "done"
        /\ sub' = "idle"
        /\ ret' = Unset
        /\ result' = (IF IsAbrupt(c) THEN c ELSE W)
        /\ trace' = Append(Append(tr, Event(pc, "PutValue", <<V, W>>, c)),
                           Event(pc, "PutValue", <<V, W>>, c))
        /\ env' = PutValueEnv(V, W, env, canWrite)

\* The store step returning what PutValue returned instead of the value stored.
StoreAndReturn_PutValueResult(V, W, tr) ==
    LET c == PutValue(V, W, env, canWrite)
    IN  /\ pc' = "done"
        /\ sub' = "idle"
        /\ ret' = Unset
        /\ result' = c
        /\ trace' = Append(tr, Event(pc, "PutValue", <<V, W>>, c))
        /\ env' = PutValueEnv(V, W, env, canWrite)

\* Q(PutValue(V, W)); return W
StoreAndReturn(V, W, tr) ==
    LET c == PutValue(V, W, env, canWrite)
    IN  /\ pc' = "done"
        /\ sub' = "idle"
        /\ ret' = Unset
        /\ result' = (IF IsAbrupt(c) THEN c ELSE W)
        /\ trace' = Append(tr, Event(pc, "PutValue", <<V, W>>, c))
        /\ env' = PutValueEnv(V, W, env, canWrite)

\* const rref = yield* Evaluate(AssignmentExpression), returned;
\* rval = Q(GetValue(rref)); Q(PutValue(lref, rval)); return rval
StoreSource ==
    LET rref == ret
        v    == GetValue(rref, env)
        tr1  == Append(trace, Event(pc, "GetValue", <<rref>>, v))
    IN  IF IsAbrupt(v)
        THEN rval' = rval /\ Return(v, tr1)
        ELSE rval' = v /\ StoreAndReturn(lref, v, tr1)

(***************************************************************************)
(* DestructuringAssignmentEvaluation of an array pattern: the iterator it  *)
(* opens over the value, read off the calls made so far.                   *)
(***************************************************************************)
Iterator == [t |-> "Iterator", v |-> "iterator"]
\* What advancing the iterator yields: a value, or the end of the iteration.
Item == [t |-> "IteratorResult", v |-> "value"]
Done == [t |-> "IteratorResult", v |-> "done"]

GetIteratorCalled(tr) == \E i \in DOMAIN tr : tr[i].op = "GetIterator"
IteratorOpened(tr) ==
    \E i \in DOMAIN tr : tr[i].op = "GetIterator" /\ ~IsAbrupt(tr[i].out)
\* The iterator has reported its end.
IteratorExhausted(tr) ==
    \E i \in DOMAIN tr : tr[i].op = "IteratorStep" /\ tr[i].out = Done
\* Advancing the iterator threw.
IteratorBroken(tr) ==
    \E i \in DOMAIN tr : tr[i].op = "IteratorStep" /\ IsAbrupt(tr[i].out)
IteratorCloses(tr) == {i \in DOMAIN tr : tr[i].op = "IteratorClose"}
\* The elements of the pattern the evaluator has assigned.
ElementsAssigned(tr) ==
    Cardinality({i \in DOMAIN tr : tr[i].op = "AssignElement" /\ ~IsAbrupt(tr[i].out)})

\* An iterator left open without the close rule.
CloseIterator_Never(tr) == tr
\* The close rule: leaving the pattern with an iterator that is open and has
\* not reported its end closes it.
CloseIterator(tr) ==
    IF IteratorOpened(tr) /\ ~IteratorExhausted(tr) /\ IteratorCloses(tr) = {}
    THEN Append(tr, Event("L126", "IteratorClose", <<Iterator>>, Undefined))
    ELSE tr

\* The destructuring evaluator returns c to the yield* of line 126.
DaeReturn(c, tr) ==
    /\ ret' = c
    /\ sub' = "returned"
    /\ trace' = Append(tr, Event("L126", "return", <<c>>, env))

\* The sub-evaluation reaches a suspension point of its own.
Suspend ==
    /\ sub = "running"
    /\ sub' = "suspended"
    /\ UNCHANGED <<node, pc, ret, lref, lval, rval, assignmentPattern, env, canWrite,
                   result, exception, trace>>

\* The scheduler resumes the suspension point with a value.
ResumeValue ==
    /\ sub = "suspended"
    /\ sub' = "running"
    /\ UNCHANGED <<node, pc, ret, lref, lval, rval, assignmentPattern, env, canWrite,
                   result, exception, trace>>

\* The scheduler resumes the suspension point with an abrupt completion, which
\* the sub-evaluation returns.
ResumeAbrupt ==
    /\ sub = "suspended"
    /\ \E c \in Injected :
        /\ ret' = c
        /\ trace' = CloseIterator(Append(trace, Event(pc, "inject", <<c>>, env)))
    /\ sub' = "returned"
    /\ UNCHANGED <<node, pc, lref, lval, rval, assignmentPattern, env, canWrite,
                   result, exception>>

\* The sub-evaluation returns by itself.
Complete ==
    /\ sub = "running"
    /\ sub' = "returned"
    /\ \/ /\ pc \in LhsLines
          /\ ret' \in LhsOutcomes
          /\ env' = env
       \/ /\ pc \in RhsLines
          /\ ret' \in RhsOutcomes
          /\ env' \in SourceEffects
       \/ /\ pc \in NamedLines
          /\ ret' \in NamedOutcomes(LastCall.args[2])
          /\ env' = env
       \/ /\ pc \in DaeLines
          /\ assignmentPattern.type = "ObjectAssignmentPattern"
          /\ ret' \in DaeOutcomes
          /\ env' = env
    /\ trace' = Append(trace, Event(pc, "return", <<ret'>>, env'))
    /\ UNCHANGED <<node, pc, lref, lval, rval, assignmentPattern, canWrite,
                   result, exception>>

(***************************************************************************)
(* Evaluate_AssignmentExpression, one action per run of the generator      *)
(* between two delegations.                                                *)
(***************************************************************************)
\* LeftHandSideExpression.type is 'ObjectLiteral' or 'ArrayLiteral'
IsDestructuringTarget(lhs) == lhs.type \in {"ObjectLiteral", "ArrayLiteral"}

\* Named evaluation for every anonymous function, whatever the target is.
UsesNamedEvaluation_AnyTarget(lhs, rhs) == IsAnonymousFunctionDefinition(rhs)
\* IsAnonymousFunctionDefinition(AssignmentExpression) && IsIdentifierRef(LeftHandSideExpression)
UsesNamedEvaluation(lhs, rhs) == IsAnonymousFunctionDefinition(rhs) /\ IsIdentifierRef(lhs)

\* `=`, simple target: up to the evaluation of the target.
Assign_Begin ==
    /\ pc = "start"
    /\ AssignmentOperator = TokAssign
    /\ ~IsDestructuringTarget(LeftHandSideExpression)
    /\ Delegate("L100", "Evaluate", <<LeftHandSideExpression>>, trace)
    /\ UNCHANGED <<node, lref, lval, rval, assignmentPattern, canWrite, exception>>

\* The target reference left unchecked.
Assign_TargetAbruptIgnored(c) == FALSE
\* ReturnIfAbrupt(lref): whether the evaluation returns lref here.
Assign_TargetAbrupt(c) == IsAbrupt(c)

\* ReturnIfAbrupt(lref), then the source by named or by plain evaluation.
Assign_AfterLhs ==
    /\ pc = "L100"
    /\ sub = "returned"
    /\ lref' = ret
    /\ IF Assign_TargetAbrupt(ret)
       THEN Return(ret, trace)
       ELSE IF UsesNamedEvaluation(LeftHandSideExpression, AssignmentExpression)
            THEN Delegate("L107", "NamedEvaluation",
                          <<AssignmentExpression, GetReferencedName(ret)>>, trace)
            ELSE Delegate("L110", "Evaluate", <<AssignmentExpression>>, trace)
    /\ UNCHANGED <<node, lval, rval, assignmentPattern, canWrite, exception>>

\* rval is what NamedEvaluation returned; Q(PutValue(lref, rval)); return rval.
Assign_AfterNamed ==
    /\ pc = "L107"
    /\ sub = "returned"
    /\ rval' = ret
    /\ StoreAndReturn(lref, ret, trace)
    /\ UNCHANGED <<node, lref, lval, assignmentPattern, canWrite, exception>>

Assign_AfterRhs ==
    /\ pc = "L110"
    /\ sub = "returned"
    /\ StoreSource
    /\ UNCHANGED <<node, lref, lval, assignmentPattern, canWrite, exception>>

\* `=`, array or object literal target: refine, then evaluate the source.
Destructuring_Begin ==
    /\ pc = "start"
    /\ AssignmentOperator = TokAssign
    /\ IsDestructuringTarget(LeftHandSideExpression)
    /\ LET refined == refineLeftHandSideExpression(LeftHandSideExpression)
           tr1 == Append(trace, Event(pc, "refineLeftHandSideExpression",
                                      <<LeftHandSideExpression>>, refined))
       IN  IF IsThrown(refined)
           THEN /\ pc' = "threw"
                /\ exception' = refined
                /\ trace' = tr1
                /\ UNCHANGED <<sub, ret, assignmentPattern, env, result>>
           ELSE /\ assignmentPattern' = refined
                /\ Delegate("L122", "Evaluate", <<AssignmentExpression>>, tr1)
                /\ UNCHANGED exception
    /\ UNCHANGED <<node, lref, lval, rval, canWrite>>

\* The dereference of the source left unchecked.
Destructuring_SourceAbruptIgnored(v) == FALSE
\* const rval = Q(GetValue(rref)): whether the evaluation returns here.
Destructuring_SourceAbrupt(v) == IsAbrupt(v)

Destructuring_AfterRhs ==
    /\ pc = "L122"
    /\ sub = "returned"
    /\ LET rref == ret
           v    == GetValue(rref, env)
           tr1  == Append(trace, Event(pc, "GetValue", <<rref>>, v))
       IN  IF Destructuring_SourceAbrupt(v)
           THEN rval' = rval /\ Return(v, tr1)
           ELSE /\ rval' = v
                /\ Delegate("L126", "DestructuringAssignmentEvaluation",
                            <<assignmentPattern, v>>, tr1)
    /\ UNCHANGED <<node, lref, lval, assignmentPattern, canWrite, exception>>

\* The destructuring branch returning what the destructuring evaluator returned.
Destructuring_CompletionOfDae(dae, v) == dae
\* Q(yield* DestructuringAssignmentEvaluation(...)); return rval
Destructuring_Completion(dae, v) == IF IsAbrupt(dae) THEN dae ELSE v

Destructuring_AfterDae ==
    /\ pc = "L126"
    /\ sub = "returned"
    /\ Return(Destructuring_Completion(ret, rval), trace)
    /\ UNCHANGED <<node, lref, lval, rval, assignmentPattern, canWrite, exception>>

\* Array pattern: an iterator is obtained from the value.
Dae_GetIterator ==
    /\ pc = "L126"
    /\ sub = "running"
    /\ assignmentPattern.type = "ArrayAssignmentPattern"
    /\ ~GetIteratorCalled(trace)
    /\ \/ /\ trace' = Append(trace, Event(pc, "GetIterator", <<rval>>, Iterator))
          /\ UNCHANGED <<sub, ret>>
       \/ LET c == ThrowCompletion("GetIterator")
          IN  DaeReturn(c, Append(trace, Event(pc, "GetIterator", <<rval>>, c)))
    /\ UNCHANGED <<node, pc, lref, lval, rval, assignmentPattern, env, canWrite,
                   result, exception>>

\* Array pattern: the next element, in order.  The iterator is advanced
\* unless it has reported its end; the element is then assigned.  A throw of
\* either ends the evaluator.  The close rule applies to a failed assignment;
\* after a throw of the iterator itself the iterator is closed or counts as
\* finished.
Dae_Element ==
    /\ pc = "L126"
    /\ sub = "running"
    /\ assignmentPattern.type = "ArrayAssignmentPattern"
    /\ IteratorOpened(trace)
    /\ ElementsAssigned(trace) < Len(assignmentPattern.AssignmentElementList)
    /\ LET element == assignmentPattern.AssignmentElementList[ElementsAssigned(trace) + 1]
           assign(tr) ==
               \/ /\ trace' = Append(tr, Event(pc, "AssignElement", <<element>>, Undefined))
                  /\ UNCHANGED <<sub, ret>>
               \/ LET c == ThrowCompletion("AssignElement")
                  IN  DaeReturn(c, CloseIterator(
                          Append(tr, Event(pc, "AssignElement", <<element>>, c))))
       IN  IF IteratorExhausted(trace)
           THEN assign(trace)
           ELSE \/ \E step \in {Item, Done} :
                      assign(Append(trace, Event(pc, "IteratorStep", <<Iterator>>, step)))
                \/ LET c == ThrowCompletion("IteratorStep")
                       tr1 == Append(trace, Event(pc, "IteratorStep", <<Iterator>>, c))
                   IN  \E tr2 \in {tr1, CloseIterator(tr1)} : DaeReturn(c, tr2)
    /\ UNCHANGED <<node, pc, lref, lval, rval, assignmentPattern, env, canWrite,
                   result, exception>>

\* Array pattern: every element is assigned; the close rule applies.
Dae_Finish ==
    /\ pc = "L126"
    /\ sub = "running"
    /\ assignmentPattern.type = "ArrayAssignmentPattern"
    /\ IteratorOpened(trace)
    /\ ElementsAssigned(trace) = Len(assignmentPattern.AssignmentElementList)
    /\ DaeReturn(Undefined, CloseIterator(trace))
    /\ UNCHANGED <<node, pc, lref, lval, rval, assignmentPattern, env, canWrite,
                   result, exception>>

\* A test that never stops: the source of &&= is always evaluated.
LogicalAnd_StopsNever(lbool) == FALSE
\* lbool === Value.false
LogicalAnd_Stops(lbool) == lbool = False
\* lbool === Value.true
LogicalOr_Stops(lbool) == lbool = True
\* A test by truthiness, as for ||=: false, 0 and "" would continue.
Coalesce_StopsIfTruthy(v) == ToBoolean(v) = True
\* lval !== Value.undefined && lval !== Value.null
Coalesce_Stops(v) == v # Undefined /\ v # Null

LogicalAnd_Begin ==
    /\ pc = "start"
    /\ AssignmentOperator = TokAndAnd
    /\ Delegate("L131", "Evaluate", <<LeftHandSideExpression>>, trace)
    /\ UNCHANGED <<node, lref, lval, rval, assignmentPattern, canWrite, exception>>

LogicalAnd_AfterLhs ==
    /\ pc = "L131"
    /\ sub = "returned"
    /\ lref' = ret
    /\ LET v   == GetValue(ret, env)
           tr1 == Append(trace, Event(pc, "GetValue", <<ret>>, v))
           tr2 == Append(tr1, Event(pc, "ToBoolean", <<v>>, ToBoolean(v)))
       IN  IF IsAbrupt(v)
           THEN lval' = lval /\ Return(v, tr1)
           ELSE /\ lval' = v
                /\ IF LogicalAnd_Stops(ToBoolean(v))
                   THEN Return(v, tr2)
                   ELSE Delegate("L141", "Evaluate", <<AssignmentExpression>>, tr2)
    /\ UNCHANGED <<node, rval, assignmentPattern, canWrite, exception>>

LogicalAnd_AfterRhs ==
    /\ pc = "L141"
    /\ sub = "returned"
    /\ StoreSource
    /\ UNCHANGED <<node, lref, lval, assignmentPattern, canWrite, exception>>

LogicalOr_Begin ==
    /\ pc = "start"
    /\ AssignmentOperator = TokOrOr
    /\ Delegate("L150", "Evaluate", <<LeftHandSideExpression>>, trace)
    /\ UNCHANGED <<node, lref, lval, rval, assignmentPattern, canWrite, exception>>

LogicalOr_AfterLhs ==
    /\ pc = "L150"
    /\ sub = "returned"
    /\ lref' = ret
    /\ LET v   == GetValue(ret, env)
           tr1 == Append(trace, Event(pc, "GetValue", <<ret>>, v))
           tr2 == Append(tr1, Event(pc, "ToBoolean", <<v>>, ToBoolean(v)))
       IN  IF IsAbrupt(v)
           THEN lval' = lval /\ Return(v, tr1)
           ELSE /\ lval' = v
                /\ IF LogicalOr_Stops(ToBoolean(v))
                   THEN Return(v, tr2)
                   ELSE Delegate("L160", "Evaluate", <<AssignmentExpression>>, tr2)
    /\ UNCHANGED <<node, rval, assignmentPattern, canWrite, exception>>

LogicalOr_AfterRhs ==
    /\ pc = "L160"
    /\ sub = "returned"
    /\ StoreSource
    /\ UNCHANGED <<node, lref, lval, assignmentPattern, canWrite, exception>>

Coalesce_Begin ==
    /\ pc = "start"
    /\ AssignmentOperator = TokCoalesce
    /\ Delegate("L169", "Evaluate", <<LeftHandSideExpression>>, trace)
    /\ UNCHANGED <<node, lref, lval, rval, assignmentPattern, canWrite, exception>>

Coalesce_AfterLhs ==
    /\ pc = "L169"
    /\ sub = "returned"
    /\ lref' = ret
    /\ LET v   == GetValue(ret, env)
           tr1 == Append(trace, Event(pc, "GetValue", <<ret>>, v))
       IN  IF IsAbrupt(v)
           THEN lval' = lval /\ Return(v, tr1)
           ELSE /\ lval' = v
                /\ IF Coalesce_Stops(v)
                   THEN Return(v, tr1)
                   ELSE Delegate("L177", "Evaluate", <<AssignmentExpression>>, tr1)
    /\ UNCHANGED <<node, rval, assignmentPattern, canWrite, exception>>

Coalesce_AfterRhs ==
    /\ pc = "L177"
    /\ sub = "returned"
    /\ StoreSource
    /\ UNCHANGED <<node, lref, lval, assignmentPattern, canWrite, exception>>

\* Every other operator token: the compound branch.
Compound_Begin ==
    /\ pc = "start"
    /\ AssignmentOperator \notin {TokAssign, TokAndAnd, TokOrOr, TokCoalesce}
    /\ Delegate("L186", "Evaluate", <<LeftHandSideExpression>>, trace)
    /\ UNCHANGED <<node, lref, lval, rval, assignmentPattern, canWrite, exception>>

\* The dereference of the target left unchecked.
Compound_TargetAbruptIgnored(v) == FALSE
\* const lval = Q(GetValue(lref)): whether the evaluation returns here.
Compound_TargetAbrupt(v) == IsAbrupt(v)

Compound_AfterLhs ==
    /\ pc = "L186"
    /\ sub = "returned"
    /\ lref' = ret
    /\ LET v   == GetValue(ret, env)
           tr1 == Append(trace, Event(pc, "GetValue", <<ret>>, v))
       IN  IF Compound_TargetAbrupt(v)
           THEN lval' = lval /\ Return(v, tr1)
           ELSE /\ lval' = v
                /\ Delegate("L190", "Evaluate", <<AssignmentExpression>>, tr1)
    /\ UNCHANGED <<node, rval, assignmentPattern, canWrite, exception>>

\* The target dereferenced again after the source was evaluated.
Compound_LeftOperandCurrent(read, current) == current
\* The left operand handed to the binary operator: the local lval, read before
\* the source was evaluated, not the value the target holds now.
Compound_LeftOperand(read, current) == read

Compound_AfterRhs ==
    /\ pc = "L190"
    /\ sub = "returned"
    /\ LET rref == ret
           v    == GetValue(rref, env)
           tr1  == Append(trace, Event(pc, "GetValue", <<rref>>, v))
       IN  IF IsAbrupt(v)
           THEN rval' = rval /\ Return(v, tr1)
           ELSE LET assignmentOpText == AssignmentOperator
                    opText == OpText(assignmentOpText)
                    left == Compound_LeftOperand(lval, GetValue(lref, env))
                    r   == ApplyStringOrNumericBinaryOperator(left, opText, v)
                    tr2 == Append(tr1, Event(pc, "ApplyStringOrNumericBinaryOperator",
                                             <<left, opText, v>>, r))
                IN  /\ rval' = v
                    /\ StoreAndReturn(lref, r, tr2)
    /\ UNCHANGED <<node, lref, lval, assignmentPattern, canWrite, exception>>

Next ==
    \/ Suspend \/ ResumeValue \/ ResumeAbrupt \/ Complete
    \/ Assign_Begin \/ Assign_AfterLhs \/ Assign_AfterNamed \/ Assign_AfterRhs
    \/ Destructuring_Begin \/ Destructuring_AfterRhs \/ Destructuring_AfterDae
    \/ Dae_GetIterator \/ Dae_Element \/ Dae_Finish
    \/ LogicalAnd_Begin \/ LogicalAnd_AfterLhs \/ LogicalAnd_AfterRhs
    \/ LogicalOr_Begin \/ LogicalOr_AfterLhs \/ LogicalOr_AfterRhs
    \/ Coalesce_Begin \/ Coalesce_AfterLhs \/ Coalesce_AfterRhs
    \/ Compound_Begin \/ Compound_AfterLhs \/ Compound_AfterRhs

Spec == Init /\ [][Next]_vars

(***************************************************************************)
(* Reading the trace.                                                      *)
(***************************************************************************)
IsTargetEvaluation(e) == e.op = "Evaluate" /\ e.at \in LhsLines
IsSourceEvaluation(e) ==
    \/ e.op = "Evaluate" /\ e.at \in RhsLines
    \/ e.op = "NamedEvaluation"
\* A PutValue call that wrote the binding.
IsStore(e) == e.op = "PutValue" /\ ~IsAbrupt(e.out)
\* The dereference of the target that yielded its current value.
IsTargetRead(e) == e.op = "GetValue" /\ e.at \in LhsLines /\ ~IsAbrupt(e.out)

TargetRead  == \E i \in DOMAIN trace : IsTargetRead(trace[i])
TargetValue == trace[CHOOSE i \in DOMAIN trace : IsTargetRead(trace[i])].out
SourceEvaluated == \E i \in DOMAIN trace : IsSourceEvaluation(trace[i])

(***************************************************************************)
(* Logical assignment.                                                     *)
(***************************************************************************)
\* The stop condition of each logical operator, as the language defines it.
ShortCircuitStops(op, v) ==
    CASE op = TokAndAnd   -> ToBoolean(v) = False
      [] op = TokOrOr     -> ToBoolean(v) = True
      [] op = TokCoalesce -> v \notin {Undefined, Null}

\* C1: for &&=, ||= and ??=, whenever the short-circuit test on the target's
\* current value says stop, the evaluation has returned that value, the source
\* expression was not evaluated, PutValue was not called and the target still
\* holds the value that was read.
C1_StopSkipsSourceAndStore ==
    (AssignmentOperator \in LogicalTokens /\ TargetRead
        /\ ShortCircuitStops(AssignmentOperator, TargetValue))
    => /\ pc = "done"
       /\ result = TargetValue
       /\ \A i \in DOMAIN trace :
            ~IsSourceEvaluation(trace[i]) /\ trace[i].op # "PutValue"
       /\ env = TargetValue

\* a &&= f() with a = 0 has returned 0.
C1_Witness ==
    /\ AssignmentOperator = TokAndAnd
    /\ AssignmentExpression = CallExpression
    /\ pc = "done"
    /\ TargetRead
    /\ TargetValue = Zero
    /\ result = Zero

\* The continue condition of each logical operator.
ShortCircuitContinues(op, v) ==
    CASE op = TokAndAnd   -> ToBoolean(v) = True
      [] op = TokOrOr     -> ToBoolean(v) = False
      [] op = TokCoalesce -> v \in {Undefined, Null}

\* C2: once the target of a logical assignment has been read, the source is
\* evaluated exactly when &&= read a truthy value, ||= a falsy value, ??=
\* undefined or null; otherwise the evaluation has stopped with the value
\* read; exactly one of the two happens.
C2_ContinueDecision ==
    (AssignmentOperator \in LogicalTokens /\ TargetRead)
    => LET v         == TargetValue
           continued == SourceEvaluated
           stopped   == pc = "done" /\ ~SourceEvaluated /\ result = v
       IN  /\ continued <=> ShortCircuitContinues(AssignmentOperator, v)
           /\ stopped <=> ~continued

\* a ??= f() with a = "" has stopped with "".
C2_Witness ==
    /\ AssignmentOperator = TokCoalesce
    /\ pc = "done"
    /\ TargetRead
    /\ TargetValue = EmptyStr
    /\ result = EmptyStr
    /\ ~SourceEvaluated

(***************************************************************************)
(* Compound assignment.                                                    *)
(***************************************************************************)
IsApply(e) == e.op = "ApplyStringOrNumericBinaryOperator"
\* A dereference of the target that ended abruptly.
IsFailedTargetRead(e) == e.op = "GetValue" /\ e.at \in LhsLines /\ IsAbrupt(e.out)

\* C3: in a compound assignment the target is evaluated and dereferenced
\* before the source is evaluated, the left operand of the binary operator is
\* the value read then, whatever the target holds after the source ran, and an
\* abrupt dereference of the target leaves the source unevaluated.
C3_CompoundReadsTargetFirst ==
    AssignmentOperator \in CompoundTokens
    => /\ \A i \in DOMAIN trace : IsSourceEvaluation(trace[i]) =>
            \E j, k \in 1..(i - 1) :
                j < k /\ IsTargetEvaluation(trace[j]) /\ IsTargetRead(trace[k])
       /\ \A i \in DOMAIN trace : IsApply(trace[i]) =>
            TargetRead /\ trace[i].args[1] = TargetValue
       /\ (\E k \in DOMAIN trace : IsFailedTargetRead(trace[k])) =>
            ~SourceEvaluated /\ pc = "done"

\* a += f() with a = 1, where f() sets a to 5 and returns 1: the operator was
\* applied to the 1 read before the call.
C3_Witness ==
    /\ AssignmentOperator = TokAdd
    /\ pc = "done"
    /\ TargetRead
    /\ TargetValue = One
    /\ \E i \in DOMAIN trace :
         trace[i].op = "return" /\ trace[i].at = "L190" /\ trace[i].out = Five
    /\ result = [t |-> "Result", l |-> One, op |-> <<"+">>, r |-> One]

(***************************************************************************)
(* Abrupt completions.                                                     *)
(***************************************************************************)
ArgsOf(e) == {e.args[k] : k \in DOMAIN e.args}

\* The entry is a step that produced an abrupt completion of its own: a
\* sub-evaluation that returned one, or an operation that was handed no abrupt
\* argument and returned one.
IsAbruptOrigin(e) ==
    \/ e.op = "return" /\ IsAbrupt(e.args[1])
    \/ e.op \in {"GetValue", "PutValue"} /\ IsAbrupt(e.out)
         /\ \A a \in ArgsOf(e) : ~IsAbrupt(a)
    \/ IsApply(e) /\ IsAbrupt(e.out)

AbruptOf(e) == IF e.op = "return" THEN e.args[1] ELSE e.out

\* GetValue or PutValue handed the record c, returning it untouched.
IsPassThrough(e, c) ==
    /\ e.op \in {"GetValue", "PutValue"}
    /\ \E k \in DOMAIN e.args : IsAbrupt(e.args[k]) /\ e.args[k] = c
    /\ IsAbrupt(e.out)
    /\ e.out = c

\* The evaluation has returned, or the generator has not run since entry i.
UnwindsFrom(i) == pc = "done" \/ (sub = "returned" /\ i = Len(trace))

C10_InjectedAbruptUnwinds ==
    \A i \in DOMAIN trace : trace[i].op = "inject" =>
        LET c == trace[i].args[1]
        IN  /\ \A j \in DOMAIN trace : j > i =>
                    IsPassThrough(trace[j], c) \/ trace[j].op = "IteratorClose"
            /\ UnwindsFrom(i) \/ (sub = "returned" /\ i = Len(trace) - 1)
            /\ pc = "done" => result = c
            /\ env = trace[i].out

\* x = function () {} resumed with a throw inside the named evaluation.
C10_Witness ==
    /\ pc = "done"
    /\ result = ThrowCompletion("injected")
    /\ \E i \in DOMAIN trace :
         /\ trace[i].op = "inject"
         /\ trace[i].at = "L107"
    /\ canWrite
    /\ env # Uninit

(***************************************************************************)
(* The value returned and the value stored.                                *)
(***************************************************************************)
\* The entry yields the value of the source: its dereference, or the return
\* of the named evaluation.
IsSourceValue(e, w) ==
    \/ e.op = "GetValue" /\ e.at \in RhsLines /\ e.out = w
    \/ e.op = "return" /\ e.at \in NamedLines /\ e.args[1] = w

\* C5: whenever =, a logical or a compound assignment to a simple target has
\* performed a store, it has completed normally with the value handed to
\* PutValue for the target reference, which the target now holds: the source
\* value for = and the logical forms, the operator's result for the compound
\* forms.
C5_ReturnsStoredValue ==
    ~IsDestructuringTarget(LeftHandSideExpression)
    => \A i \in DOMAIN trace : IsStore(trace[i]) =>
        LET w == trace[i].args[2]
        IN  /\ pc = "done"
            /\ trace[i].args[1] = lref
            /\ result = w
            /\ env = w
            /\ \E j \in 1..(i - 1) :
                 IF AssignmentOperator \in CompoundTokens
                 THEN IsApply(trace[j]) /\ trace[j].out = w
                 ELSE IsSourceValue(trace[j], w)

\* a ||= f() with a = 0 and f() returning 1: 1 was stored and returned.
C5_Witness ==
    /\ AssignmentOperator = TokOrOr
    /\ pc = "done"
    /\ TargetRead
    /\ TargetValue = Zero
    /\ \E i \in DOMAIN trace : IsStore(trace[i]) /\ trace[i].args[2] = One
    /\ result = One
    /\ env = One

(***************************************************************************)
(* Plain assignment to a simple target.                                    *)
(***************************************************************************)
IsPlainAssignment ==
    AssignmentOperator = TokAssign /\ ~IsDestructuringTarget(LeftHandSideExpression)

\* The evaluation of the target ended abruptly.
IsFailedTargetEvaluation(e) ==
    /\ e.at = "L100"
    /\ \/ e.op = "return" /\ IsAbrupt(e.args[1])
       \/ e.op = "inject"

\* C6: in = with a simple target, the source is evaluated (by either path)
\* only after the target evaluation has returned a reference; when the target
\* evaluation ends abruptly, no call follows it (no evaluation of the source,
\* no PutValue), the binding is untouched and the evaluation returns that
\* completion in its next run.
C6_TargetBeforeSource ==
    IsPlainAssignment
    => /\ \A i \in DOMAIN trace : IsSourceEvaluation(trace[i]) =>
            \E j, k \in 1..(i - 1) :
                /\ j < k
                /\ IsTargetEvaluation(trace[j])
                /\ trace[k].op = "return" /\ trace[k].at = "L100"
                /\ IsReference(trace[k].args[1])
       /\ \A k \in DOMAIN trace : IsFailedTargetEvaluation(trace[k]) =>
            /\ k = Len(trace)
            /\ UnwindsFrom(k)
            /\ pc = "done" => result = trace[k].args[1]
            /\ env = trace[k].out

\* o.p = f() where evaluating o.p threw: the throw was returned.
C6_Witness ==
    /\ AssignmentOperator = TokAssign
    /\ LeftHandSideExpression = MemberExpression("p")
    /\ AssignmentExpression = CallExpression
    /\ pc = "done"
    /\ result = ThrowCompletion("Evaluate(LeftHandSideExpression)")

NamedCalls == {i \in DOMAIN trace : trace[i].op = "NamedEvaluation"}
PlainSourceCalls ==
    {i \in DOMAIN trace : trace[i].op = "Evaluate" /\ trace[i].at \in RhsLines}

\* C7: in = with a simple target, the source is evaluated by NamedEvaluation
\* exactly when it is an anonymous function or class definition and the
\* target is an identifier reference, with the name of the reference the
\* target evaluation returned; otherwise by Evaluate followed by GetValue.
\* Once the target has yielded a reference exactly one of the two has been
\* called, once.  No other branch calls NamedEvaluation.
C7_NamedEvaluationChoice ==
    LET both == /\ IsAnonymousFunctionDefinition(AssignmentExpression)
                /\ IsIdentifierRef(LeftHandSideExpression)
    IN  /\ NamedCalls # {} => IsPlainAssignment /\ both
        /\ IsPlainAssignment =>
            /\ PlainSourceCalls # {} => ~both
            /\ Cardinality(NamedCalls) + Cardinality(PlainSourceCalls) <= 1
            /\ IsReference(lref) =>
                 Cardinality(NamedCalls) + Cardinality(PlainSourceCalls) = 1
            /\ \A i \in NamedCalls :
                 /\ trace[i].args = <<AssignmentExpression, lref.v>>
                 /\ lref = Reference(LeftHandSideExpression.name)
                 /\ \E k \in 1..(i - 1) :
                      trace[k].op = "return" /\ trace[k].at = "L100"
                      /\ trace[k].args[1] = lref
                 /\ \A j \in DOMAIN trace : trace[j].op # "GetValue"
            /\ \A i \in PlainSourceCalls :
                 /\ trace[i].args = <<AssignmentExpression>>
                 /\ pc = "done" =>
                      \E j \in DOMAIN trace :
                          j > i /\ trace[j].op = "GetValue" /\ trace[j].at = "L110"

\* y = function () {} has stored and returned a function named "y".
C7_Witness ==
    /\ AssignmentOperator = TokAssign
    /\ LeftHandSideExpression = IdentifierReference("y")
    /\ AssignmentExpression = FunctionExpression("")
    /\ pc = "done"
    /\ result = Fn("y")
    /\ env = Fn("y")

(***************************************************************************)
(* Plain assignment to an array or object literal.                         *)
(***************************************************************************)
IsDestructuringAssignment ==
    AssignmentOperator = TokAssign /\ IsDestructuringTarget(LeftHandSideExpression)

IsDae(e) == e.op = "DestructuringAssignmentEvaluation"

\* C8: in = with an array or object literal as target, the first call refines
\* the target, the second evaluates the source, the source is dereferenced,
\* and then the destructuring evaluator runs with the pattern the refiner
\* returned and the value of the source; the target is never evaluated; a
\* normal result is the value of the source, and an abrupt completion of the
\* destructuring evaluator is the result instead.
C8_DestructuringOrder ==
    IsDestructuringAssignment
    => /\ trace # <<>> =>
            /\ trace[1].op = "refineLeftHandSideExpression"
            /\ trace[1].args = <<LeftHandSideExpression>>
       /\ \A i \in DOMAIN trace :
            /\ ~IsTargetEvaluation(trace[i])
            /\ i > 1 => trace[i].op # "refineLeftHandSideExpression"
            /\ IsSourceEvaluation(trace[i]) =>
                 /\ i = 2
                 /\ trace[i].op = "Evaluate"
                 /\ trace[i].args = <<AssignmentExpression>>
            /\ IsDae(trace[i]) =>
                 \E j \in 3..(i - 1) :
                     /\ trace[j].op = "GetValue"
                     /\ ~IsAbrupt(trace[j].out)
                     /\ trace[i].args = <<trace[1].out, trace[j].out>>
                     /\ rval = trace[j].out
            /\ (trace[i].op = "return" /\ trace[i].at = "L126" /\ pc = "done") =>
                 result = (IF IsAbrupt(trace[i].args[1]) THEN trace[i].args[1] ELSE rval)
       /\ (pc = "done" /\ ~IsAbrupt(result)) =>
            /\ result = rval
            /\ \E i \in DOMAIN trace :
                 trace[i].op = "return" /\ trace[i].at = "L126"

\* [a] = f() with f() returning 1: destructuring ran and 1 was returned.
C8_Witness ==
    /\ AssignmentOperator = TokAssign
    /\ LeftHandSideExpression = ArrayLiteral(<<IdentifierReference("a")>>)
    /\ AssignmentExpression = CallExpression
    /\ pc = "done"
    /\ result = One
    /\ \E i \in DOMAIN trace :
         /\ IsDae(trace[i])
         /\ trace[i].args[2] = One

(***************************************************************************)
(* The operator table.                                                     *)
(***************************************************************************)
\* A token without its last character.
WithoutLast(tok) == SubSeq(tok, 1, Len(tok) - 1)

\* Operator tokens that are no compound assignment operator.
OtherTokens ==
    {TokAssign, TokAndAnd, TokOrOr, TokCoalesce,
     <<"=", "=">>, <<"!", "=">>, <<"<", "=">>, <<">", "=">>, <<"=", "=", "=">>,
     <<"=", ">">>, <<"+">>, <<"*", "*">>, <<">", ">", ">">>}

\* C9: the table maps each of the twelve compound tokens to the token without
\* its trailing "=", and no other token to an operator; the binary operator is
\* only applied in a compound assignment, to (the value read from the target,
\* the table's entry for the operator token, the value of the source).
C9_OpTextTable ==
    /\ Cardinality(CompoundTokens) = 12
    /\ \A tok \in CompoundTokens :
         /\ tok[Len(tok)] = "="
         /\ OpText(tok) = WithoutLast(tok)
    /\ \A tok \in OtherTokens : OpText(tok) = NoOpText
    /\ \A i \in DOMAIN trace : IsApply(trace[i]) =>
         /\ AssignmentOperator \in CompoundTokens
         /\ TargetRead
         /\ \E j \in 1..(i - 1) :
              /\ trace[j].op = "GetValue"
              /\ trace[j].at \in RhsLines
              /\ trace[i].args =
                   <<TargetValue, WithoutLast(AssignmentOperator), trace[j].out>>

\* x >>>= f() with x = 1 and f() returning 0 has applied >>> to (1, 0).
C9_Witness ==
    /\ AssignmentOperator = TokShr
    /\ pc = "done"
    /\ result = [t |-> "Result", l |-> One, op |-> <<">", ">", ">">>, r |-> Zero]

(***************************************************************************)
(* The refiner.                                                            *)
(***************************************************************************)
\* The node types refineLeftHandSideExpression has a case for.
RefinedTypes ==
    {"ArrayLiteral", "ObjectLiteral", "PropertyDefinition", "IdentifierReference",
     "CoverInitializedName", "AssignmentExpression"}

IsRefineCall(e) == e.op = "refineLeftHandSideExpression"

\* An entry of an element list that stands for a hole: the hole itself handed
\* through, or an assignment element without a target.
IsHoleEntry(e) ==
    \/ e = Elision
    \/ e.type = "AssignmentElement" /\ "DestructuringAssignmentTarget" \notin DOMAIN e

\* C11: refining an array literal with holes, whose other elements are of
\* shapes the refiner accepts, succeeds: the pattern has one entry per
\* element, a hole entry at the index of each hole and the refinement of the
\* element everywhere else.
C11_HolesPassThrough ==
    \A i \in DOMAIN trace : IsRefineCall(trace[i]) =>
        LET lit == trace[i].args[1]
            out == trace[i].out
        IN  (/\ lit.type = "ArrayLiteral"
             /\ \E k \in DOMAIN lit.ElementList : lit.ElementList[k] = Elision
             /\ \A k \in DOMAIN lit.ElementList :
                  lit.ElementList[k].type \in RefinedTypes \cup {"Elision"})
            => /\ pc # "threw"
               /\ ~IsThrown(out)
               /\ out.type = "ArrayAssignmentPattern"
               /\ Len(out.AssignmentElementList) = Len(lit.ElementList)
               /\ \A k \in DOMAIN lit.ElementList :
                    IF lit.ElementList[k] = Elision
                    THEN IsHoleEntry(out.AssignmentElementList[k])
                    ELSE out.AssignmentElementList[k] =
                            refineLeftHandSideExpression(lit.ElementList[k])

\* The properties of an object literal that are no rest property, in order.
NonRestProperties(list) == SelectSeq(list, LAMBDA p : ~IsRestProperty(p))

\* The field is missing, or holds undefined.
IsAbsent(rec, field) == field \notin DOMAIN rec \/ rec[field] = JSUndefined

\* C12: in a refined object pattern, the entry of a key/value property whose
\* value is an assignment expression (target = default) is an assignment
\* property with the property's key whose element has that target and holds
\* the default in its Initializer field; when the value is no assignment
\* expression the element's target is the value and its Initializer is absent.
C12_PropertyDefaultIsInitializer ==
    \A i \in DOMAIN trace :
        (IsRefineCall(trace[i]) /\ trace[i].args[1].type = "ObjectLiteral"
            /\ ~IsThrown(trace[i].out))
        => LET props   == NonRestProperties(trace[i].args[1].PropertyDefinitionList)
               entries == trace[i].out.AssignmentPropertyList
           IN  \A k \in DOMAIN props : props[k].type = "PropertyDefinition" =>
                 LET value == props[k].AssignmentExpression
                     el    == entries[k].AssignmentElement
                 IN  /\ k \in DOMAIN entries
                     /\ entries[k].type = "AssignmentProperty"
                     /\ entries[k].PropertyName = props[k].PropertyName
                     /\ el.type = "AssignmentElement"
                     /\ IF value.type = "AssignmentExpression"
                        THEN /\ el.DestructuringAssignmentTarget =
                                    value.LeftHandSideExpression
                             /\ "Initializer" \in DOMAIN el
                             /\ el.Initializer = value.AssignmentExpression
                        ELSE /\ el.DestructuringAssignmentTarget = value
                             /\ IsAbsent(el, "Initializer")

\* The rest properties of an object literal, in order.
RestProperties(list) == SelectSeq(list, IsRestProperty)

\* C13: a refined object pattern has one entry per property of the literal
\* that is no rest property, each an assignment property and the refinement
\* of that property, in the order of the literal; a key-less property with an
\* assignment expression is no entry and its expression is the target of the
\* pattern's rest; without such a property the pattern has no rest.
C13_ObjectPartition ==
    \A i \in DOMAIN trace :
        (IsRefineCall(trace[i]) /\ trace[i].args[1].type = "ObjectLiteral")
        => LET list    == trace[i].args[1].PropertyDefinitionList
               props   == NonRestProperties(list)
               rests   == RestProperties(list)
               out     == trace[i].out
               entries == out.AssignmentPropertyList
           IN  /\ ~IsThrown(out)
               /\ out.type = "ObjectAssignmentPattern"
               /\ Len(entries) = Len(props)
               /\ \A k \in DOMAIN props :
                    /\ entries[k].type = "AssignmentProperty"
                    /\ entries[k] = refineLeftHandSideExpression(props[k])
               /\ IF rests = <<>>
                  THEN "AssignmentRestProperty" \notin DOMAIN out
                  ELSE /\ "AssignmentRestProperty" \in DOMAIN out
                       /\ out.AssignmentRestProperty.type = "AssignmentRestProperty"
                       /\ out.AssignmentRestProperty.DestructuringAssignmentTarget =
                              rests[Len(rests)].AssignmentExpression
                       /\ \A k \in DOMAIN entries :
                            entries[k] # out.AssignmentRestProperty

\* ({ a = 9, ...r } = f()) has been destructured: one entry, for a, and the
\* rest target r.
C13_Witness ==
    /\ LeftHandSideExpression =
          ObjectLiteral(<<CoverInitializedName("a", NumericLiteral),
                          PropertyDefinition(NullNode, IdentifierReference("r"))>>)
    /\ pc = "done"
    /\ Len(assignmentPattern.AssignmentPropertyList) = 1
    /\ assignmentPattern.AssignmentPropertyList[1].Initializer = NumericLiteral
    /\ assignmentPattern.AssignmentRestProperty.DestructuringAssignmentTarget =
          IdentifierReference("r")

\* C14: in every pattern the refiner returns, each entry of an array
\* pattern's element list is an assignment element or a hole, and each entry
\* of an object pattern's property list is an assignment property.
C14_EntriesConform ==
    \A i \in DOMAIN trace : (IsRefineCall(trace[i]) /\ ~IsThrown(trace[i].out)) =>
        LET out == trace[i].out
        IN  CASE out.type = "ArrayAssignmentPattern" ->
                    \A k \in DOMAIN out.AssignmentElementList :
                        \/ out.AssignmentElementList[k].type = "AssignmentElement"
                        \/ IsHoleEntry(out.AssignmentElementList[k])
              [] out.type = "ObjectAssignmentPattern" ->
                    \A k \in DOMAIN out.AssignmentPropertyList :
                        out.AssignmentPropertyList[k].type = "AssignmentProperty"
              [] OTHER -> FALSE

\* The refiner, started on the node, meets a node of a type it has no case
\* for: in the node itself, in an element of an array literal or in a property
\* of an object literal that is no rest property, at any depth.
RECURSIVE MeetsUnknownShape(_)
MeetsUnknownShape(n) ==
    CASE n.type = "ArrayLiteral" ->
            \E k \in DOMAIN n.ElementList : MeetsUnknownShape(n.ElementList[k])
      [] n.type = "ObjectLiteral" ->
            \E k \in DOMAIN n.PropertyDefinitionList :
                /\ ~IsRestProperty(n.PropertyDefinitionList[k])
                /\ MeetsUnknownShape(n.PropertyDefinitionList[k])
      [] OTHER -> n.type \notin RefinedTypes

\* C15: when the refiner meets a node of a shape it has no case for, at any
\* depth, the evaluation ends with the host exception OutOfRange of the
\* refiner: no pattern was returned or kept, nothing was evaluated, and the
\* evaluation returned no completion record; and the evaluation ends this way
\* in no other case.
C15_UnknownShapeIsFatal ==
    /\ \A i \in DOMAIN trace : IsRefineCall(trace[i]) =>
        IF MeetsUnknownShape(trace[i].args[1])
        THEN /\ IsThrown(trace[i].out)
             /\ trace[i].out.fn = "refineLeftHandSideExpression"
             /\ trace[i].out.what \notin RefinedTypes
             /\ pc = "threw"
             /\ exception = trace[i].out
             /\ ~IsAbrupt(exception)
             /\ assignmentPattern = Unset
             /\ result = Unset
             /\ Len(trace) = 1
             /\ sub = "idle"
        ELSE /\ ~IsThrown(trace[i].out)
             /\ pc # "threw"
             /\ exception = Unset
    /\ pc = "threw" => trace # <<>> /\ IsRefineCall(trace[1])

\* [a, [o.p]] = f(): the refiner threw on o.p, two levels down, after it had
\* refined a.
C15_Witness ==
    /\ LeftHandSideExpression =
          ArrayLiteral(<<IdentifierReference("a"), ArrayLiteral(<<MemberExpression("p")>>)>>)
    /\ pc = "threw"
    /\ exception = OutOfRange("refineLeftHandSideExpression", "MemberExpression")

\* No array or object literal node is a destructuring target in x: x is a
\* target, an entry, a rest or a pattern.
RECURSIVE NoLiteralTarget(_)
NoLiteralTarget(x) ==
    CASE x.type \in {"ArrayLiteral", "ObjectLiteral"} -> FALSE
      [] x.type = "ArrayAssignmentPattern" ->
            \A k \in DOMAIN x.AssignmentElementList :
                NoLiteralTarget(x.AssignmentElementList[k])
      [] x.type = "ObjectAssignmentPattern" ->
            /\ \A k \in DOMAIN x.AssignmentPropertyList :
                 NoLiteralTarget(x.AssignmentPropertyList[k])
            /\ "AssignmentRestProperty" \in DOMAIN x =>
                 NoLiteralTarget(x.AssignmentRestProperty)
      [] x.type \in {"AssignmentElement", "AssignmentRestProperty"} ->
            "DestructuringAssignmentTarget" \in DOMAIN x =>
                NoLiteralTarget(x.DestructuringAssignmentTarget)
      [] x.type = "AssignmentProperty" ->
            "AssignmentElement" \in DOMAIN x => NoLiteralTarget(x.AssignmentElement)
      [] OTHER -> TRUE

\* C16: in every pattern the refiner returns, the target of each element,
\* property and rest, at any depth, is a simple expression or a refined
\* pattern, never an array or object literal node.
C16_TargetsAreRefined ==
    \A i \in DOMAIN trace : (IsRefineCall(trace[i]) /\ ~IsThrown(trace[i].out)) =>
        NoLiteralTarget(trace[i].out)

(***************************************************************************)
(* The iterator of an array-pattern destructuring.                         *)
(***************************************************************************)
\* The destructuring evaluator has been left: it returned, or a suspension
\* point inside it was resumed with an abrupt completion.
DaeLeft ==
    \E i \in DOMAIN trace : trace[i].at = "L126" /\ trace[i].op \in {"return", "inject"}

\* The assignment of an element failed while the iterator had not reported
\* its end.
IsAbandonedElement(i) ==
    /\ trace[i].op = "AssignElement"
    /\ IsAbrupt(trace[i].out)
    /\ ~IteratorExhausted(SubSeq(trace, 1, i))

C18_StoreNeverHandedAbrupt ==
    \A i \in DOMAIN trace :
        /\ trace[i].op = "PutValue" => ~IsAbrupt(trace[i].args[2])
        /\ ((IsApply(trace[i]) /\ IsAbrupt(trace[i].out))
              \/ (trace[i].op = "return" /\ trace[i].at \in NamedLines
                    /\ IsAbrupt(trace[i].args[1])))
           => \A j \in DOMAIN trace : j > i => trace[j].op # "PutValue"

(***************************************************************************)
(* One linear pass.                                                        *)
(***************************************************************************)
\* A run of the generator itself, from one delegation to the next.
GeneratorStep ==
    \/ Assign_Begin \/ Assign_AfterLhs \/ Assign_AfterNamed \/ Assign_AfterRhs
    \/ Destructuring_Begin \/ Destructuring_AfterRhs \/ Destructuring_AfterDae
    \/ LogicalAnd_Begin \/ LogicalAnd_AfterLhs \/ LogicalAnd_AfterRhs
    \/ LogicalOr_Begin \/ LogicalOr_AfterLhs \/ LogicalOr_AfterRhs
    \/ Coalesce_Begin \/ Coalesce_AfterLhs \/ Coalesce_AfterRhs
    \/ Compound_Begin \/ Compound_AfterLhs \/ Compound_AfterRhs

\* The delegations entered so far.
Delegations ==
    {i \in DOMAIN trace :
        /\ trace[i].op \in {"Evaluate", "NamedEvaluation", "DestructuringAssignmentEvaluation"}
        /\ trace[i].out = Unset}

\* C19: every evaluation is one linear pass.  The target is evaluated at most
\* once, the source at most once, PutValue is called at most once, with the
\* reference the target evaluation returned, and as the last call of the
\* evaluation; no delegation line is entered twice and there are at most two
\* delegations; whenever the evaluation has not ended and waits for no
\* sub-evaluation the generator can run, and once it has ended nothing is
\* pending.  (For a literal target the stores are the destructuring
\* evaluator's; the evaluator itself calls PutValue never.)
C19_SingleLinearPass ==
    /\ Cardinality({i \in DOMAIN trace : IsTargetEvaluation(trace[i])}) <= 1
    /\ Cardinality({i \in DOMAIN trace : IsSourceEvaluation(trace[i])}) <= 1
    /\ Cardinality({i \in DOMAIN trace : trace[i].op = "PutValue"}) <= 1
    /\ \A i \in DOMAIN trace : trace[i].op = "PutValue" =>
         /\ i = Len(trace)
         /\ pc = "done"
         /\ trace[i].args[1] = lref
         /\ \E j, k \in 1..(i - 1) :
              /\ j < k
              /\ IsTargetEvaluation(trace[j])
              /\ trace[k].op = "return" /\ trace[k].at = trace[j].at
              /\ trace[k].args[1] = lref
    /\ Cardinality(Delegations) <= 2
    /\ \A i, j \in Delegations : trace[i].at = trace[j].at => i = j
    /\ (pc = "start" \/ (pc \notin {"done", "threw"} /\ sub = "returned"))
          => ENABLED GeneratorStep
    /\ pc \in {"done", "threw"} => sub = "idle" /\ ~ENABLED GeneratorStep

\* x *= f() with x = 1 and f() returning 0: one target evaluation, one source
\* evaluation, one store, the last call.
C19_Witness ==
    /\ AssignmentOperator = TokMul
    /\ pc = "done"
    /\ result = [t |-> "Result", l |-> One, op |-> <<"*">>, r |-> Zero]
    /\ IsStore(trace[Len(trace)])
    /\ Cardinality(Delegations) = 2

====
